---- MODULE Spec2Model ----
(***************************************************************************)
(* ESPHomeClient (homeassistant/components/esphome/bluetooth/client.py):   *)
(* one Bleak client session that reaches one BLE peer through an ESPHome   *)
(* proxy.  The session object, the shared GATT cache, the proxy/API client *)
(* side and the caller's tasks are the state; every coroutine is cut at    *)
(* its awaits, and everything between two awaits is one atomic step (one   *)
(* asyncio event loop, no preemption).                                     *)
(***************************************************************************)
EXTENDS Naturals, FiniteSets, Sequences, TLC

\* ------------------------------------------------------------------ bounds
\* Caller tasks that may use the session concurrently.
NumTasks == 2
\* connect() calls over the life of the session object.
MaxConnects == 2
\* Characteristics in the peer's GATT table (handles 1..NumChars).
NumChars == 2
\* Characteristics of the larger GATT table one caller subscribes to: one of
\* each kind of properties and descriptors.
NumNotifyChars == 4

\* -------------------------------------------------------- program constants
DEFAULT_MTU == 23
GATT_HEADER_SIZE == 3

Tasks == 1 .. NumTasks
\* The task the caller connects and disconnects from.
MainTask == CHOOSE t \in Tasks : \A u \in Tasks : t <= u
Handles == 1 .. NumChars
NotifyHandles == 1 .. NumNotifyChars
ConnectIds == 1 .. MaxConnects

\* The peer this session talks to, and another peer sharing the cache.
SelfAddr == "aa:bb"
OtherAddr == "cc:dd"
Peers == {SelfAddr, OtherAddr}

\* BluetoothProxyFeature bits the client looks at.
Features == {"REMOTE_CACHING", "PAIRING", "CACHE_CLEARING"}

\* The MTU the proxy reports with connected=True for the link of the n-th
\* connect call: links negotiate different MTUs.
NegotiatedMtu(n) == IF n % 2 = 1 THEN 185 ELSE 247
\* error codes of a connection-state message: 0 none, 8 a BLEConnectionError
\* member (ESP_GATT_CONN_TIMEOUT), 999 mapped by nothing.
ConnErrorCodes == {8, 999}

\* ---------------------------------------------------------------- values
None == 0

Ret(v) == [cls |-> "return", msg |-> v]
Exc(c, m) == [cls |-> c, msg |-> m]
NoRes == [cls |-> "none", msg |-> ""]
\* states of a connected_future that holds no result or exception
Pending == [cls |-> "pending", msg |-> ""]
Cancelled == [cls |-> "cancelled", msg |-> ""]

\* Exceptions an RPC of the API client raises.
TimeoutAPIError == Exc("TimeoutAPIError", "")
APIConnectionError == Exc("APIConnectionError", "")
GattNotConnected == Exc("BluetoothGATTAPIError", "-1")
GattOther == Exc("BluetoothGATTAPIError", "133")
RpcErrors == {TimeoutAPIError, APIConnectionError, GattNotConnected, GattOther}

CancelledError == Exc("CancelledError", "")
TimeoutError == Exc("TimeoutError", "")
DisconnectedDuringOperation == Exc("BleakError", "Disconnected during operation")

\* The peer's GATT table: what each characteristic supports, and whether it
\* carries a Client Characteristic Configuration descriptor.
CharProperties(h) ==
    CASE h % 4 = 1 -> {"read", "notify"}
      [] h % 4 = 2 -> {"write", "notify", "indicate"}
      [] h % 4 = 3 -> {"indicate"}
      [] OTHER -> {"read", "write"}

HasCCCD(h) == h % 4 \in {1, 3}

\* BleakGATTServiceCollection: the characteristics, each with the
\* max_write_without_response it was built with.  `none` is Python's None.
NoServices == [none |-> TRUE, chars |-> {}]
EmptyCollection == [none |-> FALSE, chars |-> {}]
Collection(chars) == [none |-> FALSE, chars |-> chars]

VARIABLES
    self,    \* the ESPHomeClient object's fields
    cache,   \* ESPHomeBluetoothCache, shared by every session of the proxy
    env,     \* API client, proxy and event loop side
    tasks,   \* the caller's tasks, each inside at most one client call
    last     \* the client call that ended most recently, and how it ended

vars == <<self, cache, env, tasks, last>>

\* A task.  pc: where its call is suspended; op, handle, use_cache: the call
\* and its arguments; exc: the exception connect holds while it disconnects.
\* History of the call: log, the RPCs and waits it has started and what it
\* found; dropped, link-drop handling ran while it awaited a wrapped RPC;
\* overlapped, another call or a callback of the session ran during it.
IdleTask ==
    [pc |-> "idle", op |-> "none", handle |-> None, use_cache |-> FALSE,
     exc |-> NoRes, log |-> {}, dropped |-> FALSE, overlapped |-> FALSE]

NoCall ==
    [op |-> "none", handle |-> None, use_cache |-> FALSE,
     res |-> NoRes, log |-> {}, dropped |-> FALSE, overlapped |-> FALSE]

\* The whole state as one value, so that the synchronous methods are
\* functions from state to state.  `last` shows a call's end only in the
\* state its last step leaves, the moment the caller gets the result: every
\* step starts from no call ended.
World == [self |-> self, cache |-> cache, env |-> env, tasks |-> tasks, last |-> NoCall]

\* A connected_future that no subscribed callback and no running connect
\* call refers to is garbage.
Collect(w) ==
    [w EXCEPT !.env.connected_future = [c \in ConnectIds |->
        IF \/ c \in w.env.conn_subs
           \/ c = w.env.connects /\ \E t \in Tasks : w.tasks[t].op = "connect"
        THEN w.env.connected_future[c]
        ELSE NoRes]]

Commit(w) ==
    /\ self' = w.self
    /\ cache' = w.cache
    /\ env' = Collect(w).env
    /\ tasks' = w.tasks
    /\ last' = w.last

\* The awaits inside a verify_connected wrapper: the places a resolved
\* disconnected_future interrupts.
WrappedRpc == {"rpc", "notify_rpc", "cccd_rpc", "services_rpc"}

Has(w, feature) == feature \in w.self._feature_flags

\* ------------------------------------------------- synchronous methods

_unsubscribe_connection_state(w) ==
    IF w.self._cancel_connection_state = None
    THEN w
    ELSE [w EXCEPT !.env.conn_subs = @ \ {w.self._cancel_connection_state},
                   !.self._cancel_connection_state = None]

\* The cleanup that clears the waiter set without resolving the futures.
_async_disconnected_cleanup_unresolved(w) ==
    _unsubscribe_connection_state(
        [w EXCEPT !.self.services = EmptyCollection,
                  !.self._is_connected = FALSE,
                  !.env.notify_subs = @ \ w.self._notify_cancels,
                  !.self._notify_cancels = {},
                  !.self._disconnected_futures = {}])

\* The cleanup that also forgets what the shared cache holds for the peer.
_async_disconnected_cleanup_forgetting(w) ==
    _unsubscribe_connection_state(
        [w EXCEPT !.self.services = EmptyCollection,
                  !.self._is_connected = FALSE,
                  !.env.notify_subs = @ \ w.self._notify_cancels,
                  !.self._notify_cancels = {},
                  !.env.interrupts = @ \cup w.self._disconnected_futures,
                  !.self._disconnected_futures = {},
                  !.cache.services[SelfAddr] = {},
                  !.cache.mtu[SelfAddr] = None])

_async_disconnected_cleanup(w) ==
    _unsubscribe_connection_state(
        [w EXCEPT !.self.services = EmptyCollection,
                  !.self._is_connected = FALSE,
                  \* notify_abort(): drops the client-side callback only
                  !.env.notify_subs = @ \ w.self._notify_cancels,
                  !.self._notify_cancels = {},
                  \* future.set_result(None) schedules the interrupt of the
                  \* task that waits inside the wrapper
                  !.env.interrupts = @ \cup w.self._disconnected_futures,
                  !.self._disconnected_futures = {}])

_async_call_bleak_disconnected_callback(w) ==
    IF w.self._disconnected_callback
    THEN [w EXCEPT !.env.notified = @ + 1,
                   !.self._disconnected_callback = FALSE]
    ELSE w

\* History only: link-drop handling runs.  Which tasks are suspended inside
\* a wrapped RPC, and how often it has found the session connected.
MarkDropped(w) ==
    [w EXCEPT !.tasks = [t \in Tasks |->
                  IF w.tasks[t].pc \in WrappedRpc
                  THEN [w.tasks[t] EXCEPT !.dropped = TRUE]
                  ELSE w.tasks[t]],
              !.env.connected_drops = IF w.self._is_connected THEN @ + 1 ELSE @]

_async_ble_device_disconnected(w0) ==
    LET w == MarkDropped(w0)
        was_connected == w.self._is_connected
        w1 == _async_disconnected_cleanup(w)
    IN  IF was_connected
        THEN _async_call_bleak_disconnected_callback(w1)
        ELSE w1

\* History only: a callback of the session runs while calls are under way.
MarkOverlapped(w) ==
    [w EXCEPT !.tasks = [t \in Tasks |->
                  IF w.tasks[t].pc # "idle"
                  THEN [w.tasks[t] EXCEPT !.overlapped = TRUE]
                  ELSE w.tasks[t]]]

_async_esp_disconnected(w) ==
    _async_ble_device_disconnected(
        [MarkOverlapped(w) EXCEPT !.env.disconnect_callbacks = @ - 1])

FutureDone(w, cid) == w.env.connected_future[cid] # Pending

ConnectError(error) ==
    IF error = 8
    THEN Exc("BleakError", "Error ESP_GATT_CONN_TIMEOUT while connecting: Connection timed out")
    ELSE Exc("BleakError", "Error 999 while connecting: Unknown error code 999")

\* History only: the connect call whose connected_future this message
\* resolves keeps the message in its log.
StateLog(connected, error) ==
    "connection state connected=" \o (IF connected THEN "True" ELSE "False")
        \o " error=" \o (CASE error = 0 -> "0" [] error = 8 -> "8" [] OTHER -> "999")

MarkResolved(w, cid, connected, error) ==
    [w EXCEPT !.tasks = [t \in Tasks |->
                  IF /\ w.tasks[t].op = "connect"
                     /\ w.tasks[t].pc # "connect_slot"
                     /\ cid = w.env.connects
                  THEN [w.tasks[t] EXCEPT !.log = @ \cup {StateLog(connected, error)}]
                  ELSE w.tasks[t]]]

\* The callback that tests connected before error.
_on_bluetooth_connection_state_unordered(w0, cid, connected, mtu, error) ==
    LET w == MarkOverlapped(w0)
        w1 == IF connected
              THEN IF w.self._mtu = None
                   THEN [w EXCEPT !.self._is_connected = TRUE,
                                  !.self._mtu = mtu,
                                  !.cache.mtu[SelfAddr] = mtu]
                   ELSE [w EXCEPT !.self._is_connected = TRUE]
              ELSE _async_ble_device_disconnected(w)
        w2 == MarkResolved(w1, cid, connected, error)
    IN  IF FutureDone(w1, cid) THEN w1
        ELSE IF ~connected
        THEN [w2 EXCEPT !.env.connected_future[cid] = Exc("BleakError", "Disconnected")]
        ELSE IF error # 0
        THEN [w2 EXCEPT !.env.connected_future[cid] = ConnectError(error)]
        ELSE [w2 EXCEPT !.env.disconnect_callbacks = @ + 1,
                        !.env.connected_future[cid] = Ret("True")]

\* The callback that takes the MTU of every connected=True message.
_on_bluetooth_connection_state_relearning(w0, cid, connected, mtu, error) ==
    LET w == MarkOverlapped(w0)
        w1 == IF connected
              THEN [w EXCEPT !.self._is_connected = TRUE,
                             !.self._mtu = mtu,
                             !.cache.mtu[SelfAddr] = mtu]
              ELSE _async_ble_device_disconnected(w)
        w2 == MarkResolved(w1, cid, connected, error)
    IN  IF FutureDone(w1, cid) THEN w1
        ELSE IF error # 0
        THEN [w2 EXCEPT !.env.connected_future[cid] = ConnectError(error)]
        ELSE IF ~connected
        THEN [w2 EXCEPT !.env.connected_future[cid] = Exc("BleakError", "Disconnected")]
        ELSE [w2 EXCEPT !.env.disconnect_callbacks = @ + 1,
                        !.env.connected_future[cid] = Ret("True")]

\* The callback without the test of connected_future.done().
_on_bluetooth_connection_state_unguarded(w0, cid, connected, mtu, error) ==
    LET w == MarkOverlapped(w0)
        w1 == IF connected
              THEN IF w.self._mtu = None
                   THEN [w EXCEPT !.self._is_connected = TRUE,
                                  !.self._mtu = mtu,
                                  !.cache.mtu[SelfAddr] = mtu]
                   ELSE [w EXCEPT !.self._is_connected = TRUE]
              ELSE _async_ble_device_disconnected(w)
        w2 == MarkResolved(w1, cid, connected, error)
    IN  IF error # 0
        THEN [w2 EXCEPT !.env.connected_future[cid] = ConnectError(error)]
        ELSE IF ~connected
        THEN [w2 EXCEPT !.env.connected_future[cid] = Exc("BleakError", "Disconnected")]
        ELSE [w2 EXCEPT !.env.disconnect_callbacks = @ + 1,
                        !.env.connected_future[cid] = Ret("True")]

_on_bluetooth_connection_state(w0, cid, connected, mtu, error) ==
    LET w == MarkOverlapped(w0)
        w1 == IF connected
              THEN IF w.self._mtu = None
                   THEN [w EXCEPT !.self._is_connected = TRUE,
                                  !.self._mtu = mtu,
                                  !.cache.mtu[SelfAddr] = mtu]
                   ELSE [w EXCEPT !.self._is_connected = TRUE]
              ELSE _async_ble_device_disconnected(w)
        w2 == MarkResolved(w1, cid, connected, error)
    IN  IF FutureDone(w1, cid) THEN w1
        ELSE IF error # 0
        THEN [w2 EXCEPT !.env.connected_future[cid] = ConnectError(error)]
        ELSE IF ~connected
        THEN [w2 EXCEPT !.env.connected_future[cid] = Exc("BleakError", "Disconnected")]
        ELSE [w2 EXCEPT !.env.disconnect_callbacks = @ + 1,
                        !.env.connected_future[cid] = Ret("True")]

\* ----------------------------------------------------------- the wrappers

\* verify_connected, before the wrapped call: a fresh future joins the set.
verify_connected_enter(w, t) ==
    [w EXCEPT !.self._disconnected_futures = @ \cup {t}]

\* The wrapper's exit without the discard of its finally clause.
verify_connected_exit_undiscarded(w, t) ==
    [w EXCEPT !.env.interrupts = @ \ {t}]

\* verify_connected's finally (and the interrupt context manager's exit,
\* after which the future's done-callback no longer reaches the task).
verify_connected_exit(w, t) ==
    [w EXCEPT !.self._disconnected_futures = @ \ {t},
              !.env.interrupts = @ \ {t}]

\* The translation without the link-drop handling on error -1.
api_error_as_bleak_error_unhandled(w, exc) ==
    CASE exc.cls = "TimeoutAPIError" ->
            [w |-> w, exc |-> TimeoutError]
      [] exc.cls = "BluetoothGATTAPIError" ->
            [w |-> w, exc |-> Exc("BleakError", "gatt error " \o exc.msg)]
      [] exc.cls = "APIConnectionError" ->
            [w |-> w, exc |-> Exc("BleakError", "api connection error")]
      [] OTHER ->
            [w |-> w, exc |-> exc]

\* api_error_as_bleak_error's except clauses, in their order: the state
\* after the handler and the exception that leaves it.
api_error_as_bleak_error(w, exc) ==
    CASE exc.cls = "TimeoutAPIError" ->
            [w |-> w, exc |-> TimeoutError]
      [] exc.cls = "BluetoothGATTAPIError" ->
            [w |-> IF exc.msg = "-1" THEN _async_ble_device_disconnected(w) ELSE w,
             exc |-> Exc("BleakError", "gatt error " \o exc.msg)]
      [] exc.cls = "APIConnectionError" ->
            [w |-> w, exc |-> Exc("BleakError", "api connection error")]
      [] OTHER ->
            [w |-> w, exc |-> exc]

\* ------------------------------------------------------ task bookkeeping

Begin(w, t, op, h, uc) ==
    [w EXCEPT !.tasks = [u \in Tasks |->
                  IF u = t
                  THEN [IdleTask EXCEPT
                           !.pc = "running", !.op = op, !.handle = h,
                           !.use_cache = uc,
                           !.overlapped = \E v \in Tasks : w.tasks[v].pc # "idle"]
                  ELSE IF w.tasks[u].pc # "idle"
                  THEN [w.tasks[u] EXCEPT !.overlapped = TRUE]
                  ELSE w.tasks[u]],
              !.env.after_disconnect = FALSE]

\* The task awaits an RPC of the API client.
Await(w, t, pc, rpc) ==
    [w EXCEPT !.tasks[t].pc = pc, !.tasks[t].log = @ \cup {rpc}]

\* The task waits for something that is no RPC.
Suspend(w, t, pc) == [w EXCEPT !.tasks[t].pc = pc]

\* The task runs again.
Resume(w, t) == [w EXCEPT !.tasks[t].pc = "running"]

\* The client call of task t ends: res is what the caller gets.
Finish(w, t, res) ==
    [w EXCEPT !.tasks[t] = IdleTask,
              !.last = [op |-> w.tasks[t].op,
                        handle |-> w.tasks[t].handle,
                        use_cache |-> w.tasks[t].use_cache,
                        res |-> res,
                        log |-> w.tasks[t].log,
                        dropped |-> w.tasks[t].dropped,
                        overlapped |-> w.tasks[t].overlapped]]

\* An operation decorated @verify_connected @api_error_as_bleak_error ends.
ReturnWrapped(w, t, v) ==
    Finish(verify_connected_exit(Resume(w, t), t), t, Ret(v))

RaiseWrapped(w, t, exc) ==
    LET r == api_error_as_bleak_error(Resume(w, t), exc)
    IN  Finish(verify_connected_exit(r.w, t), t, r.exc)

\* An operation decorated @api_error_as_bleak_error only ends.
RaiseTranslated(w, t, exc) ==
    LET r == api_error_as_bleak_error(Resume(w, t), exc)
    IN  Finish(r.w, t, r.exc)

ConnectInProgress == \E u \in Tasks : tasks[u].op = "connect"
LifecycleInProgress == \E u \in Tasks : tasks[u].op \in {"connect", "disconnect"}

\* A caller starts a GATT operation: its task is free and no connect call
\* is under way.
CanStart(t) == tasks[t].pc = "idle" /\ ~ConnectInProgress

\* ------------------------------------------------- pair, unpair, clear_cache

\* pair that asks the proxy whatever its feature flags say.
pair_unchecked(t) ==
    /\ CanStart(t)
    /\ Commit(Await(verify_connected_enter(Begin(World, t, "pair", None, FALSE), t),
                    t, "rpc", "bluetooth_device_pair"))

pair(t) ==
    /\ CanStart(t)
    /\ LET w == verify_connected_enter(Begin(World, t, "pair", None, FALSE), t)
       IN  IF ~Has(w, "PAIRING")
           THEN Commit(RaiseWrapped(w, t, Exc("NotImplementedError", "Pairing is not available")))
           ELSE Commit(Await(w, t, "rpc", "bluetooth_device_pair"))

unpair(t) ==
    /\ CanStart(t)
    /\ LET w == verify_connected_enter(Begin(World, t, "unpair", None, FALSE), t)
       IN  IF ~Has(w, "PAIRING")
           THEN Commit(RaiseWrapped(w, t, Exc("NotImplementedError", "Unpairing is not available")))
           ELSE Commit(Await(w, t, "rpc", "bluetooth_device_unpair"))

\* clear_cache that clears the cached topology and keeps the cached MTU.
clear_cache_keeping_mtu(t) ==
    /\ CanStart(t)
    /\ LET w0 == verify_connected_enter(Begin(World, t, "clear_cache", None, FALSE), t)
           w == [w0 EXCEPT !.cache.services[SelfAddr] = {}]
       IN  IF ~Has(w, "CACHE_CLEARING")
           THEN Commit(ReturnWrapped(w, t, "True"))
           ELSE Commit(Await(w, t, "rpc", "bluetooth_device_clear_cache"))

\* clear_cache that asks the proxy whatever its feature flags say.
clear_cache_unchecked(t) ==
    /\ CanStart(t)
    /\ LET w0 == verify_connected_enter(Begin(World, t, "clear_cache", None, FALSE), t)
           w == [w0 EXCEPT !.cache.services[SelfAddr] = {},
                           !.cache.mtu[SelfAddr] = None]
       IN  Commit(Await(w, t, "rpc", "bluetooth_device_clear_cache"))

clear_cache(t) ==
    /\ CanStart(t)
    /\ LET w0 == verify_connected_enter(Begin(World, t, "clear_cache", None, FALSE), t)
           w == [w0 EXCEPT !.cache.services[SelfAddr] = {},
                           !.cache.mtu[SelfAddr] = None]
       IN  IF ~Has(w, "CACHE_CLEARING")
           THEN Commit(ReturnWrapped(w, t, "True"))
           ELSE Commit(Await(w, t, "rpc", "bluetooth_device_clear_cache"))

\* ------------------------------------------- characteristic, descriptor I/O

\* A lookup that takes every specifier for a characteristic.
_resolve_characteristic_unchecked(w, char_specifier) ==
    Ret("characteristic")

\* The characteristic of the session's services with this handle, or the
\* BleakError raised.
_resolve_characteristic(w, char_specifier) ==
    IF w.self.services.none
    THEN Exc("BleakError", "Services have not been resolved")
    ELSE IF \A c \in w.self.services.chars : c.handle # char_specifier
    THEN Exc("BleakError", "Characteristic was not found!")
    ELSE Ret("characteristic")

read_gatt_char(t, h) ==
    /\ CanStart(t)
    /\ LET w == verify_connected_enter(Begin(World, t, "read_gatt_char", None, FALSE), t)
           characteristic == _resolve_characteristic(w, h)
       IN  IF characteristic.cls # "return"
           THEN Commit(RaiseWrapped(w, t, characteristic))
           ELSE Commit(Await(w, t, "rpc", "bluetooth_gatt_read"))

write_gatt_char(t, h) ==
    /\ CanStart(t)
    /\ LET w == verify_connected_enter(Begin(World, t, "write_gatt_char", None, FALSE), t)
           characteristic == _resolve_characteristic(w, h)
       IN  IF characteristic.cls # "return"
           THEN Commit(RaiseWrapped(w, t, characteristic))
           ELSE Commit(Await(w, t, "rpc", "bluetooth_gatt_write"))

read_gatt_descriptor(t) ==
    /\ CanStart(t)
    /\ Commit(Await(verify_connected_enter(
                        Begin(World, t, "read_gatt_descriptor", None, FALSE), t),
                    t, "rpc", "bluetooth_gatt_read_descriptor"))

write_gatt_descriptor(t) ==
    /\ CanStart(t)
    /\ Commit(Await(verify_connected_enter(
                        Begin(World, t, "write_gatt_descriptor", None, FALSE), t),
                    t, "rpc", "bluetooth_gatt_write_descriptor"))

\* ------------------------------------------------------------ notifications

Subscribed(w, h) == \E e \in w.self._notify_cancels : e[1] = h

\* The (stop, abort) pair a subscribe RPC returned is named by the task that
\* made the call.
start_notify(t, h) ==
    /\ CanStart(t)
    /\ LET w == verify_connected_enter(Begin(World, t, "start_notify", h, FALSE), t)
       IN  IF Subscribed(w, h)
           THEN Commit(RaiseWrapped(w, t, Exc("BleakError", "Notifications are already enabled")))
           ELSE IF CharProperties(h) \cap {"notify", "indicate"} = {}
           THEN Commit(RaiseWrapped(w, t, Exc("BleakError", "does not have notify or indicate property set")))
           ELSE Commit(Await(w, t, "notify_rpc", "bluetooth_gatt_start_notify"))

\* The continuation that writes the CCCD whatever the proxy's flags say.
start_notify_subscribed_unconditional(t) ==
    /\ tasks[t].pc = "notify_rpc"
    /\ t \notin env.interrupts
    /\ env.link = "up"
    /\ LET h == tasks[t].handle
           w == [Resume(World, t) EXCEPT
                    !.env.notify_subs = @ \cup {<<h, t>>},
                    !.self._notify_cancels =
                        {e \in @ : e[1] # h} \cup {<<h, t>>}]
       IN  IF ~HasCCCD(h)
           THEN Commit(RaiseWrapped(w, t, Exc("BleakError", "does not have a characteristic client config descriptor")))
           ELSE Commit(Await(w, t, "cccd_rpc",
                             IF "notify" \in CharProperties(h)
                             THEN "write_descriptor CCCD_NOTIFY_BYTES"
                             ELSE "write_descriptor CCCD_INDICATE_BYTES"))

\* bluetooth_gatt_start_notify returned: the dict entry is assigned, then
\* the CCCD is written when the proxy leaves that to the client.
start_notify_subscribed(t) ==
    /\ tasks[t].pc = "notify_rpc"
    /\ t \notin env.interrupts
    /\ env.link = "up"
    /\ LET h == tasks[t].handle
           w == [Resume(World, t) EXCEPT
                    !.env.notify_subs = @ \cup {<<h, t>>},
                    !.self._notify_cancels =
                        {e \in @ : e[1] # h} \cup {<<h, t>>}]
       IN  IF ~Has(w, "REMOTE_CACHING")
           THEN Commit(ReturnWrapped(w, t, "None"))
           ELSE IF ~HasCCCD(h)
           THEN Commit(RaiseWrapped(w, t, Exc("BleakError", "does not have a characteristic client config descriptor")))
           ELSE Commit(Await(w, t, "cccd_rpc",
                             IF "notify" \in CharProperties(h)
                             THEN "write_descriptor CCCD_NOTIFY_BYTES"
                             ELSE "write_descriptor CCCD_INDICATE_BYTES"))

\* History: the log keeps that the handle had no entry when the call began.
stop_notify(t, h) ==
    /\ CanStart(t)
    /\ LET w0 == verify_connected_enter(Begin(World, t, "stop_notify", h, FALSE), t)
           w == IF Subscribed(w0, h) THEN w0
                ELSE [w0 EXCEPT !.tasks[t].log = {"no subscription"}]
           characteristic == _resolve_characteristic(w, h)
       IN  IF characteristic.cls # "return"
           THEN Commit(RaiseWrapped(w, t, characteristic))
           ELSE IF ~Subscribed(w, h)
           THEN Commit(ReturnWrapped(w, t, "None"))
           ELSE LET entry == {e \in w.self._notify_cancels : e[1] = h}
                IN  \* pop, then await notify_stop()
                    Commit(Await([w EXCEPT !.self._notify_cancels = @ \ entry,
                                           !.env.notify_subs = @ \ entry],
                                 t, "rpc", "notify_stop"))

\* ------------------------------------------------ the RPC of a wrapped call

RpcValues(op) ==
    IF op \in {"pair", "unpair", "clear_cache"} THEN {"True", "False"}
    ELSE IF op \in {"read_gatt_char", "read_gatt_descriptor"} THEN {"data"}
    ELSE {"None"}

\* The RPC answers: the wrapped coroutine returns.  The proxy answers a
\* request to the peer with a result only while the link is up; notify_stop
\* asks the proxy alone.
RpcReturn(t) ==
    /\ tasks[t].pc \in {"rpc", "cccd_rpc"}
    /\ t \notin env.interrupts
    /\ env.link = "up" \/ tasks[t].op = "stop_notify"
    /\ \E v \in RpcValues(tasks[t].op) : Commit(ReturnWrapped(World, t, v))

\* The RPC raises.
RpcRaise(t) ==
    /\ tasks[t].pc \in {"rpc", "cccd_rpc", "notify_rpc"}
    /\ t \notin env.interrupts
    /\ \E e \in RpcErrors : Commit(RaiseWrapped(World, t, e))

\* -------------------------------------------------------- service discovery

mtu_size(w) == IF w.self._mtu # None THEN w.self._mtu ELSE DEFAULT_MTU

\* The collection _get_services builds from the characteristics of an
\* enumerate-services answer.
BuildServices(w, handles) ==
    {[handle |-> h,
      max_write_without_response |-> mtu_size(w) - GATT_HEADER_SIZE] : h \in handles}

\* _disconnect that only asks the proxy.
_disconnect_without_cleanup(w, t, pc) ==
    Await(w, t, pc, "bluetooth_device_disconnect")

\* _disconnect up to its first await.
_disconnect(w, t, pc) ==
    Await(_async_disconnected_cleanup(w), t, pc, "bluetooth_device_disconnect")

\* _get_services has left its verify_connected wrapper by returning.
ServicesReturned(w, t) == Finish(w, t, Ret(IF w.tasks[t].op = "connect" THEN "True" ELSE "services"))

\* connect that raises what _get_services raised without disconnecting.
ServicesRaised_undisconnected(w, t, exc) ==
    RaiseTranslated(w, t, exc)

\* _get_services has left its verify_connected wrapper with exc: connect
\* disconnects and raises exc again afterwards, get_services translates it.
ServicesRaised(w, t, exc) ==
    IF w.tasks[t].op = "connect"
    THEN _disconnect([w EXCEPT !.tasks[t].exc = exc], t, "cleanup_rpc")
    ELSE RaiseTranslated(w, t, exc)

\* _get_services that uses the cache only for a proxy with REMOTE_CACHING.
_get_services_ignoring_caller(w0, t) ==
    LET w == verify_connected_enter(w0, t)
        cached_services == w.cache.services[SelfAddr]
    IN  IF Has(w, "REMOTE_CACHING") /\ cached_services # {}
        THEN ServicesReturned(
                 verify_connected_exit(
                     [w EXCEPT !.self.services = Collection(cached_services)], t), t)
        ELSE Await(w, t, "services_rpc", "bluetooth_gatt_get_services")

\* _get_services up to its await: the cache is used, or the RPC is issued.
_get_services(w0, t) ==
    LET w == verify_connected_enter(w0, t)
        cached_services == w.cache.services[SelfAddr]
    IN  IF (Has(w, "REMOTE_CACHING") \/ w.tasks[t].use_cache) /\ cached_services # {}
        THEN ServicesReturned(
                 verify_connected_exit(
                     [w EXCEPT !.self.services = Collection(cached_services)], t), t)
        ELSE Await(w, t, "services_rpc", "bluetooth_gatt_get_services")

get_services(t, dangerous_use_bleak_cache) ==
    /\ CanStart(t)
    /\ Commit(_get_services(
           Begin(World, t, "get_services", None, dangerous_use_bleak_cache), t))

\* The answer handled without saving the built topology in the cache.
get_services_answered_unsaved(t) ==
    /\ tasks[t].pc = "services_rpc"
    /\ t \notin env.interrupts
    /\ \E handles \in IF env.link = "up" THEN {{}, Handles} ELSE {{}} :
         LET w == Resume(World, t)
             services == BuildServices(w, handles)
         IN  IF handles = {}
             THEN Commit(ServicesRaised(
                      verify_connected_exit(
                          [w EXCEPT !.tasks[t].log = @ \cup {"no services"}], t), t,
                      Exc("BleakError", "Failed to get services from remote esp")))
             ELSE Commit(ServicesReturned(
                      verify_connected_exit(
                          [w EXCEPT !.self.services = Collection(services),
                                    !.tasks[t].log = @ \cup {"set_gatt_services_cache"}],
                          t), t))

\* bluetooth_gatt_get_services answered with these characteristics (none:
\* the answer holds no service).  The log keeps what the answer was used
\* for.
get_services_answered(t) ==
    /\ tasks[t].pc = "services_rpc"
    /\ t \notin env.interrupts
    /\ \E handles \in IF env.link = "up" THEN {{}, Handles} ELSE {{}} :
         LET w == Resume(World, t)
             services == BuildServices(w, handles)
         IN  IF handles = {}
             THEN Commit(ServicesRaised(
                      verify_connected_exit(
                          [w EXCEPT !.tasks[t].log = @ \cup {"no services"}], t), t,
                      Exc("BleakError", "Failed to get services from remote esp")))
             ELSE Commit(ServicesReturned(
                      verify_connected_exit(
                          [w EXCEPT !.self.services = Collection(services),
                                    !.cache.services[SelfAddr] = services,
                                    !.tasks[t].log = @ \cup {"set_gatt_services_cache"}],
                          t), t))

get_services_raised(t) ==
    /\ tasks[t].pc = "services_rpc"
    /\ t \notin env.interrupts
    /\ \E e \in RpcErrors :
         Commit(ServicesRaised(verify_connected_exit(Resume(World, t), t), t, e))

\* ------------------------------------------------------------------ connect

\* connect from the end of the slot wait to the await of the connect RPC.
ConnectCall(w, t) ==
    LET cid == w.env.connects + 1
        mtu == w.cache.mtu[SelfAddr]
        has_cache == /\ w.tasks[t].use_cache
                     /\ Has(w, "REMOTE_CACHING")
                     /\ w.cache.services[SelfAddr] # {}
                     /\ mtu # None
    IN  Await([w EXCEPT !.self._mtu = mtu,
                        !.env.connects = cid,
                        !.env.connected_future[cid] = Pending,
                        !.env.conn_subs = @ \cup {cid},
                        !.env.link = "connecting"],
              t, "connect_rpc",
              IF has_cache THEN "bluetooth_device_connect has_cache=True"
              ELSE "bluetooth_device_connect has_cache=False")

\* connect after the connect RPC: await connected_future, then discovery.
ConnectAwaitFuture(w0, t) ==
    LET w == [w0 EXCEPT !.tasks[t].log = @ \cup {"await connected_future"}]
        fut == w.env.connected_future[w.env.connects]
    IN  IF fut = Pending THEN Suspend(w, t, "connect_future")
        ELSE IF fut.cls = "return" THEN _get_services(Resume(w, t), t)
        ELSE RaiseTranslated(w, t, fut)

\* The caller starts connect when it holds no connection and has no other
\* call on the session under way.
connect(t, dangerous_use_bleak_cache) ==
    /\ t = MainTask
    /\ \A u \in Tasks : tasks[u].pc = "idle"
    /\ ~self._is_connected
    /\ env.connects < MaxConnects
    /\ \E ble_connections_free \in BOOLEAN :
         LET w == Begin(World, t, "connect", None, dangerous_use_bleak_cache)
         IN  IF ble_connections_free
             THEN Commit(ConnectCall(w, t))
             ELSE Commit(Await(w, t, "connect_slot", "wait_for_ble_connections_free"))

\* bluetooth_device_connect returned its unsubscribe handle.
connect_rpc_returned(t) ==
    /\ tasks[t].pc = "connect_rpc"
    /\ Commit(ConnectAwaitFuture(
           [World EXCEPT !.self._cancel_connection_state = env.connects], t))

\* bluetooth_device_connect raised: a done future is drained, a pending one
\* cancelled.  The API client has dropped the callback of the failed call
\* and the proxy the link it was opening.
connect_rpc_raised(t) ==
    /\ tasks[t].pc = "connect_rpc"
    /\ \E e \in {TimeoutAPIError, APIConnectionError} :
         LET cid == env.connects
         IN  Commit(RaiseTranslated(
                 [World EXCEPT !.env.connected_future[cid] =
                                   IF @ = Pending THEN Cancelled ELSE @,
                               !.env.conn_subs = @ \ {cid},
                               !.env.link = "idle"], t, e))

\* connected_future was resolved while connect awaited it.
connect_future_done(t) ==
    /\ tasks[t].pc = "connect_future"
    /\ FutureDone(World, env.connects)
    /\ Commit(ConnectAwaitFuture(World, t))

\* --------------------------------------------------------------- disconnect

\* History: the call is logged as a repeated one when the call that ended
\* before it was a disconnect that returned True.
disconnect(t) ==
    /\ t = MainTask
    /\ tasks[t].pc = "idle"
    /\ ~LifecycleInProgress
    /\ LET w == Begin(World, t, "disconnect", None, FALSE)
       IN  Commit(_disconnect(
               IF env.after_disconnect
               THEN [w EXCEPT !.tasks[t].log = {"disconnect returned True"}]
               ELSE w, t, "disconnect_rpc"))

\* _disconnect is over: disconnect returns True, connect raises the
\* exception that made it disconnect.
Disconnected(w, t) ==
    IF w.tasks[t].op = "connect"
    THEN RaiseTranslated(w, t, w.tasks[t].exc)
    ELSE Finish([w EXCEPT !.env.after_disconnect = TRUE], t, Ret("True"))

\* _disconnect raised exc: connect's CancelledError handler suppresses it.
DisconnectRaised(w, t, exc) ==
    IF w.tasks[t].op = "connect" /\ w.tasks[t].exc = CancelledError
    THEN Finish(w, t, CancelledError)
    ELSE RaiseTranslated(w, t, exc)

\* bluetooth_device_disconnect returned, the proxy has closed the link;
\* _wait_for_free_connection_slot.
disconnect_rpc_returned(t) ==
    /\ tasks[t].pc \in {"disconnect_rpc", "cleanup_rpc"}
    /\ \E ble_connections_free \in BOOLEAN :
         LET w == [World EXCEPT !.env.link = "idle"]
         IN  IF ble_connections_free
             THEN Commit(Disconnected(w, t))
             ELSE Commit(Await(w, t,
                      IF tasks[t].pc = "cleanup_rpc" THEN "cleanup_slot" ELSE "disconnect_slot",
                      "wait_for_ble_connections_free"))

disconnect_rpc_raised(t) ==
    /\ tasks[t].pc \in {"disconnect_rpc", "cleanup_rpc"}
    /\ \E e \in {TimeoutAPIError, APIConnectionError} :
         Commit(DisconnectRaised(World, t, e))

\* ------------------------------------------- _wait_for_free_connection_slot

SlotPcs == {"connect_slot", "disconnect_slot", "cleanup_slot"}

\* wait_for_ble_connections_free() returned.
slot_wait_done(t) ==
    /\ tasks[t].pc \in SlotPcs
    /\ IF tasks[t].pc = "connect_slot"
       THEN Commit(ConnectCall(World, t))
       ELSE Commit(Disconnected(World, t))

\* History only: the slot wait of a connect call ran into its timeout.
SlotTimedOut(w, t) ==
    [w EXCEPT !.tasks[t].log = @ \cup {"CONNECT_FREE_SLOT_TIMEOUT expired"}]

\* The timeout after which connect goes on to the connect request.
slot_wait_timeout_proceeding(t) ==
    /\ tasks[t].pc \in SlotPcs
    /\ IF tasks[t].pc = "connect_slot"
       THEN Commit(ConnectCall(SlotTimedOut(World, t), t))
       ELSE Commit(DisconnectRaised(World, t, TimeoutError))

\* asyncio.timeout(timeout) expired.
slot_wait_timeout(t) ==
    /\ tasks[t].pc \in SlotPcs
    /\ IF tasks[t].pc = "connect_slot"
       THEN Commit(RaiseTranslated(SlotTimedOut(World, t), t, TimeoutError))
       ELSE Commit(DisconnectRaised(World, t, TimeoutError))

\* ------------------------------------------- interruption and cancellation

\* The done-callback of the resolved disconnected_future cancels the task;
\* the interrupt context manager turns that into BleakError.
interrupted(t) ==
    /\ tasks[t].pc \in WrappedRpc
    /\ t \in env.interrupts
    /\ LET w == verify_connected_exit(Resume(World, t), t)
       IN  IF tasks[t].pc = "services_rpc"
           THEN Commit(ServicesRaised(w, t, DisconnectedDuringOperation))
           ELSE Commit(Finish(w, t, DisconnectedDuringOperation))

\* The caller cancels the task while it is suspended in a client call.
cancelled(t) ==
    /\ tasks[t].pc \notin {"idle", "running"}
    /\ t \notin env.interrupts
    /\ LET pc == tasks[t].pc
           w == Resume(World, t)
           cid == env.connects
       IN  CASE pc = "services_rpc" ->
                  \* connect: suppress(Exception) around _disconnect, then raise
                  Commit(ServicesRaised(verify_connected_exit(w, t), t, CancelledError))
             [] pc \in WrappedRpc \ {"services_rpc"} ->
                  Commit(Finish(verify_connected_exit(w, t), t, CancelledError))
             [] pc = "connect_rpc" ->
                  \* a done future is drained; the API client drops the callback
                  Commit(Finish([w EXCEPT !.env.conn_subs = @ \ {cid}], t, CancelledError))
             [] pc = "connect_future" ->
                  \* cancelling the await cancels the awaited future, unless
                  \* it is done already
                  Commit(Finish([w EXCEPT !.env.connected_future[cid] =
                                              IF @ = Pending THEN Cancelled ELSE @],
                                t, CancelledError))
             [] OTHER ->
                  Commit(Finish(w, t, CancelledError))

\* ------------------------------------------------------------ environment

RECURSIVE Deliver(_, _, _, _, _)
\* The API client calls every subscribed connection-state callback, oldest
\* first; each is bound to the connected_future of its connect call.
Deliver(w, subs, connected, mtu, error) ==
    IF subs = {} THEN w
    ELSE LET cid == CHOOSE c \in subs : \A d \in subs : c <= d
         IN  Deliver(_on_bluetooth_connection_state(w, cid, connected, mtu, error),
                     subs \ {cid}, connected, mtu, error)

\* The proxy reports that the link it was asked to open is up.
connection_state_connected ==
    /\ env.link = "connecting"
    /\ Commit(Deliver([World EXCEPT !.env.link = "up"], env.conn_subs, TRUE,
                      NegotiatedMtu(env.connects), 0))

\* The proxy reports that the link failed to open or went down.
connection_state_disconnected ==
    /\ env.link \in {"connecting", "up"}
    /\ \E error \in {0} \cup ConnErrorCodes :
         Commit(Deliver([World EXCEPT !.env.link = "idle"], env.conn_subs, FALSE, 0, error))

\* The MTUs a connection-state message may carry.
MtuValues == {NegotiatedMtu(c) : c \in ConnectIds}

\* The proxy sends any connection-state message about the link: a first or a
\* repeated connected=True with some MTU, connected=False, each with or
\* without an error code.
connection_state_message ==
    /\ env.link \in {"connecting", "up"}
    /\ \E connected \in BOOLEAN, error \in {0} \cup ConnErrorCodes :
       \E mtu \in IF connected THEN MtuValues ELSE {0} :
         Commit(Deliver([World EXCEPT !.env.link = IF connected THEN "up" ELSE "idle"],
                        env.conn_subs, connected, mtu, error))

\* The API connection to the proxy drops: the registered disconnect callback
\* runs, and the proxy side forgets its subscriptions and links.
esp_disconnected ==
    /\ env.disconnect_callbacks > 0
    /\ Commit(_async_esp_disconnected(
           [World EXCEPT !.env.conn_subs = {},
                         !.env.notify_subs = {},
                         !.env.link = "idle"]))

\* ------------------------------------------------------------ specification

\* The state after __init__, for a proxy whose feature flags are one of
\* flag_sets.
InitWith(flag_sets) ==
    /\ \E flags \in flag_sets :
         self = [_is_connected |-> FALSE,
                 _mtu |-> None,
                 _cancel_connection_state |-> None,
                 _notify_cancels |-> {},
                 _disconnected_futures |-> {},
                 _feature_flags |-> flags,
                 _disconnected_callback |-> TRUE,
                 services |-> NoServices]
    /\ cache = [services |-> [p \in Peers |-> {}], mtu |-> [p \in Peers |-> None]]
    /\ env = [conn_subs |-> {},
              notify_subs |-> {},
              interrupts |-> {},
              notified |-> 0,
              connected_drops |-> 0,
              after_disconnect |-> FALSE,
              disconnect_callbacks |-> 0,
              connected_future |-> [c \in ConnectIds |-> NoRes],
              connects |-> 0,
              link |-> "idle"]
    /\ tasks = [t \in Tasks |-> IdleTask]
    /\ last = NoCall

\* connect, disconnect, get_services and what completes them.
Lifecycle ==
    \/ \E t \in Tasks, uc \in BOOLEAN : connect(t, uc)
    \/ \E t \in Tasks : connect_rpc_returned(t)
    \/ \E t \in Tasks : connect_rpc_raised(t)
    \/ \E t \in Tasks : connect_future_done(t)
    \/ \E t \in Tasks : disconnect(t)
    \/ \E t \in Tasks : disconnect_rpc_returned(t)
    \/ \E t \in Tasks : disconnect_rpc_raised(t)
    \/ \E t \in Tasks : slot_wait_done(t)
    \/ \E t \in Tasks : slot_wait_timeout(t)
    \/ \E t \in Tasks, uc \in BOOLEAN : get_services(t, uc)
    \/ \E t \in Tasks : get_services_answered(t)
    \/ \E t \in Tasks : get_services_raised(t)

\* What ends a wrapped call that awaits its RPC.
Completion ==
    \/ \E t \in Tasks : RpcReturn(t)
    \/ \E t \in Tasks : RpcRaise(t)
    \/ \E t \in Tasks : interrupted(t)
    \/ \E t \in Tasks : cancelled(t)

Environment ==
    \/ connection_state_connected
    \/ connection_state_disconnected
    \/ esp_disconnected

Init == InitWith(SUBSET {"REMOTE_CACHING"})

Next ==
    \/ Lifecycle
    \/ Completion
    \/ Environment
    \/ \E t \in Tasks, h \in Handles : read_gatt_char(t, h)

Spec == Init /\ [][Next]_vars

\* What the session of the other peer has put into the shared cache.
OtherMtu == NegotiatedMtu(2)
OtherServices ==
    {[handle |-> h, max_write_without_response |-> OtherMtu - GATT_HEADER_SIZE] :
        h \in Handles}

\* The state connect leaves when it has returned True for the first link,
\* without a cache hit: the session is connected, the topology discovered
\* and cached, the connection-state callback subscribed.  The other peer's
\* session has connected too.
InitConnectedTo(flag_sets, handles) ==
    /\ \E flags \in flag_sets :
         self = [_is_connected |-> TRUE,
                 _mtu |-> NegotiatedMtu(1),
                 _cancel_connection_state |-> 1,
                 _notify_cancels |-> {},
                 _disconnected_futures |-> {},
                 _feature_flags |-> flags,
                 _disconnected_callback |-> TRUE,
                 services |-> Collection(
                     {[handle |-> h,
                       max_write_without_response |->
                           NegotiatedMtu(1) - GATT_HEADER_SIZE] : h \in handles})]
    /\ cache = [services |-> [p \in Peers |->
                                  IF p = SelfAddr THEN self.services.chars
                                  ELSE OtherServices],
                mtu |-> [p \in Peers |->
                             IF p = SelfAddr THEN NegotiatedMtu(1) ELSE OtherMtu]]
    /\ env = [conn_subs |-> {1},
              notify_subs |-> {},
              interrupts |-> {},
              notified |-> 0,
              connected_drops |-> 0,
              after_disconnect |-> FALSE,
              disconnect_callbacks |-> 1,
              connected_future |-> [c \in ConnectIds |->
                                       IF c = 1 THEN Ret("True") ELSE NoRes],
              connects |-> 1,
              link |-> "up"]
    /\ tasks = [t \in Tasks |-> IdleTask]
    /\ last = [op |-> "connect", handle |-> None, use_cache |-> FALSE,
               res |-> Ret("True"),
               log |-> {"bluetooth_device_connect has_cache=False",
                        "connection state connected=True error=0",
                        "await connected_future",
                        "bluetooth_gatt_get_services", "set_gatt_services_cache"},
               dropped |-> FALSE, overlapped |-> TRUE]

InitConnected(flag_sets) == InitConnectedTo(flag_sets, Handles)

\* The link of a connected session goes down.
LinkDrop ==
    \/ connection_state_disconnected
    \/ esp_disconnected

\* Notifications and reads of a session, from connected on.
InitNotify == InitConnected(SUBSET {"REMOTE_CACHING"})

NextNotify ==
    \/ \E t \in Tasks, h \in Handles : read_gatt_char(t, h)
    \/ \E t \in Tasks, h \in Handles : start_notify(t, h)
    \/ \E t \in Tasks : start_notify_subscribed(t)
    \/ \E t \in Tasks, h \in Handles : stop_notify(t, h)
    \/ Completion
    \/ LinkDrop

SpecNotify == InitNotify /\ [][NextNotify]_vars

\* Pairing, cache clearing and characteristic and descriptor I/O of a
\* session, from connected on, with and without the proxy's features.
InitGatt == InitConnected(SUBSET {"PAIRING", "CACHE_CLEARING"})

NextGatt ==
    \/ \E t \in Tasks : pair(t)
    \/ \E t \in Tasks : unpair(t)
    \/ \E t \in Tasks : clear_cache(t)
    \/ \E t \in Tasks, h \in Handles : read_gatt_char(t, h)
    \/ \E t \in Tasks, h \in Handles : write_gatt_char(t, h)
    \/ \E t \in Tasks : read_gatt_descriptor(t)
    \/ \E t \in Tasks : write_gatt_descriptor(t)
    \/ Completion
    \/ LinkDrop

SpecGatt == InitGatt /\ [][NextGatt]_vars

\* The connect and disconnect lifecycle of one caller, with clear_cache on a
\* proxy that cannot clear its own cache, under every connection-state
\* message the callback accepts.
NextConnect ==
    \/ \E t \in Tasks, uc \in BOOLEAN : connect(t, uc)
    \/ \E t \in Tasks : connect_rpc_returned(t)
    \/ \E t \in Tasks : connect_rpc_raised(t)
    \/ \E t \in Tasks : connect_future_done(t)
    \/ \E t \in Tasks : disconnect(t)
    \/ \E t \in Tasks : disconnect_rpc_returned(t)
    \/ \E t \in Tasks : disconnect_rpc_raised(t)
    \/ \E t \in Tasks : slot_wait_done(t)
    \/ \E t \in Tasks : slot_wait_timeout(t)
    \/ \E t \in Tasks : get_services_answered(t)
    \/ \E t \in Tasks : get_services_raised(t)
    \/ \E t \in Tasks : clear_cache(t)
    \/ \E t \in Tasks : interrupted(t)
    \/ \E t \in Tasks : cancelled(t)
    \/ connection_state_message
    \/ esp_disconnected

SpecConnect == Init /\ [][NextConnect]_vars

\* start_notify of one caller on a connected session whose peer has a
\* characteristic of each kind: notify with CCCD, notify and indicate
\* without CCCD, indicate with CCCD, neither notify nor indicate.
InitSubscribe == InitConnectedTo(SUBSET {"REMOTE_CACHING"}, NotifyHandles)

NextSubscribe ==
    \/ \E h \in NotifyHandles : start_notify(MainTask, h)
    \/ \E t \in Tasks : start_notify_subscribed(t)
    \/ Completion
    \/ LinkDrop

SpecSubscribe == InitSubscribe /\ [][NextSubscribe]_vars

\* -------------------------------------------------------------- properties

\* The session is in the clean disconnected state.
Clean ==
    /\ ~self._is_connected
    /\ self.services.chars = {}
    /\ self._notify_cancels = {}
    /\ self._disconnected_futures = {}

\* A call ended by raising something other than the caller's cancellation.
Failed(op) ==
    /\ last.op = op
    /\ last.res.cls \notin {"none", "return", "CancelledError"}

\* C2: when connect fails (slot wait timed out, the connect RPC raised, the
\* connection-state result carried an error or connected=false, or discovery
\* failed), the caller finds is_connected false, no waiter left in the
\* disconnect-waiter set and an empty topology.
C2_ConnectFailureLeavesDisconnected ==
    Failed("connect") =>
        /\ ~self._is_connected
        /\ self._disconnected_futures = {}
        /\ self.services.chars = {}

\* C3: when connect returns True, the caller finds is_connected true and a
\* non-empty topology, however the link-drop signals interleave with the
\* connect call.
C3_ConnectSuccessMeansConnected ==
    last.op = "connect" /\ last.res = Ret("True") =>
        /\ self._is_connected
        /\ self.services.chars # {}

\* C9: when a call raises the BleakError made from GATT error -1, the
\* cleanup has run by the time the caller gets the exception (is_connected
\* false, topology, registry and waiter set empty), and the disconnect
\* callback has never been notified more often than link-drop handling has
\* found the session connected: the GATT error and the link-drop signal of
\* one drop notify at most once.
C9_GattDisconnectCleansUpBeforeRaise ==
    /\ last.res = Exc("BleakError", "gatt error -1") => Clean
    /\ env.notified <= env.connected_drops

\* A call of a connected session ended with GATT error -1, and the callback
\* was notified.
C9_Witness ==
    /\ last.res = Exc("BleakError", "gatt error -1")
    /\ last.op = "read_gatt_char"
    /\ env.notified = 1

\* C8: every time link-drop handling finds the session connected, in the
\* first lifecycle and in every later one, the disconnect callback is
\* notified once: the notifications equal the connected sessions dropped.
C8_NotifiedOncePerLifecycle ==
    env.notified = env.connected_drops

\* C5: a disconnect call that no other call and no callback overlaps, the
\* first and the one right after a disconnect that returned True, fails only
\* when the RPC or the slot wait does or the caller cancels it; when it
\* returns True it has issued the disconnect RPC and leaves the clean
\* disconnected state, the second time as the first.
C5_DisconnectIdempotent ==
    last.op = "disconnect" /\ ~last.overlapped =>
        /\ last.res \in {Ret("True"), TimeoutError, CancelledError,
                         Exc("BleakError", "api connection error")}
        /\ last.res = Ret("True") =>
             /\ Clean
             /\ "bluetooth_device_disconnect" \in last.log

\* The second of two disconnect calls in a row returned True.
C5_Witness ==
    /\ env.connects >= 1
    /\ last.op = "disconnect"
    /\ ~last.overlapped
    /\ "disconnect returned True" \in last.log
    /\ last.res = Ret("True")

\* The enumerate-services RPC of the call that ended returned no service.
EmptyDiscovery == "no services" \in last.log

\* C4: when the enumerate-services RPC returns no service, the call that
\* ran the discovery (connect or a standalone get_services) fails, nothing
\* was written to the service cache, and the session is left disconnected.
C4_EmptyDiscoveryLeavesDisconnected ==
    EmptyDiscovery =>
        /\ last.res.cls \notin {"none", "return"}
        /\ "set_gatt_services_cache" \notin last.log
        /\ ~self._is_connected

\* C4, as the code has it: when the enumerate-services RPC returns no
\* service, the discovery fails with BleakError and writes nothing to the
\* service cache.  connect then disconnects before it raises, so it ends
\* failed with is_connected false; a standalone get_services raises the
\* BleakError and leaves is_connected and the cache as they were.
C4_EmptyDiscoveryFails ==
    [][LET l == last'
       IN  "no services" \in l.log =>
             /\ "set_gatt_services_cache" \notin l.log
             /\ l.op = "connect" =>
                  /\ l.res.cls \notin {"none", "return"}
                  /\ ~self'._is_connected
             /\ l.op = "get_services" =>
                  /\ l.res = Exc("BleakError", "Failed to get services from remote esp")
                  /\ self'._is_connected = self._is_connected
                  /\ cache' = cache]_vars

\* A standalone get_services of a connected session got no service.
C4_Witness ==
    /\ EmptyDiscovery
    /\ last.op = "get_services"
    /\ self._is_connected
    /\ self.services.chars # {}

\* Link-drop handling runs in this step: it finds the session connected, or
\* it finds calls suspended in a wrapped RPC.
DropStep ==
    \/ env'.connected_drops # env.connected_drops
    \/ \E t \in Tasks : tasks'[t].dropped /\ ~tasks[t].dropped

\* C1: when link-drop handling runs while N wrapped operations are suspended
\* in their RPC, the registry and the waiter set are empty right after it,
\* each of the N operations has its interrupt scheduled, and each ends by
\* raising BleakError "Disconnected during operation".
C1_LinkDropInterruptsAll ==
    [][/\ last'.dropped /\ last'.op # "connect" =>
             last'.res = DisconnectedDuringOperation
       /\ DropStep =>
             /\ self'._notify_cancels = {}
             /\ self'._disconnected_futures = {}
             /\ \A t \in Tasks :
                  tasks[t].pc \in WrappedRpc /\ tasks'[t].pc \in WrappedRpc =>
                      /\ tasks'[t].dropped
                      /\ t \in env'.interrupts]_vars

\* Of two different operations the link drop found suspended on a connected
\* session, one has raised and the other is about to.
C1_Witness ==
    /\ last.dropped
    /\ last.res = DisconnectedDuringOperation
    /\ \E t \in Tasks :
         /\ tasks[t].dropped
         /\ t \in env.interrupts
         /\ tasks[t].op # last.op
    /\ env.connected_drops = 1

\* C6: the registry holds at most one subscription per handle and a later
\* start_notify leaves the existing entry as it is, also when two
\* start_notify calls for the handle overlap: no step replaces the entry of
\* a handle by another one.
C6_ExistingEntryUnchanged ==
    [][\A e \in self._notify_cancels :
           (\E f \in self'._notify_cancels : f[1] = e[1]) =>
               e \in self'._notify_cancels]_vars

Resolves(h) ==
    /\ ~self.services.none
    /\ \E c \in self.services.chars : c.handle = h

ResolveErrors ==
    {Exc("BleakError", "Services have not been resolved"),
     Exc("BleakError", "Characteristic was not found!")}

C10_PairingUnavailable ==
    [][last'.op \in {"pair", "unpair"} /\ "PAIRING" \notin self._feature_flags =>
           /\ last'.res.cls = "NotImplementedError"
           /\ last'.log = {}
           /\ self' = self
           /\ cache' = cache
           /\ env' = env]_vars

\* pair was refused on a connected session.
C10_Witness ==
    /\ last.op = "pair"
    /\ last.res = Exc("NotImplementedError", "Pairing is not available")
    /\ "PAIRING" \notin self._feature_flags
    /\ self._is_connected

DisconnectStep ==
    \E t \in Tasks :
        /\ tasks'[t].pc # tasks[t].pc
        /\ tasks[t].op = "disconnect" \/ tasks'[t].op = "disconnect"

\* The link goes down, or link-drop handling runs.
LinkDownStep ==
    \/ env.link # "idle" /\ env'.link = "idle"
    \/ DropStep

\* A step during a connect call that does not make connect return True:
\* every step of a connect call that fails is one.
FailingConnectStep ==
    /\ ConnectInProgress \/ \E t \in Tasks : tasks'[t].op = "connect"
    /\ ~(last'.op = "connect" /\ last'.res = Ret("True"))

\* The shared cache holds for peer p in the next state what it holds now.
Survives(p) ==
    /\ cache.mtu[p] # None => cache'.mtu[p] = cache.mtu[p]
    /\ cache.services[p] # {} => cache'.services[p] = cache.services[p]

\* C12: the topology and the MTU the shared cache holds for a peer survive
\* every step of a disconnect call, every link drop with its cleanup and
\* every step of a connect call that fails; and the connect call that
\* follows reads the cached MTU back as the session's MTU.
C12_CacheSurvivesDisconnect ==
    [][/\ DisconnectStep \/ LinkDownStep \/ FailingConnectStep =>
             \A p \in Peers : Survives(p)
       /\ env'.connects # env.connects =>
             self'._mtu = cache.mtu[SelfAddr]]_vars

\* After a disconnect the second connect call has read back the MTU the
\* first link put into the cache.
C12_Witness ==
    /\ env.connects = 2
    /\ \E t \in Tasks : tasks[t].pc = "connect_rpc"
    /\ cache.mtu[SelfAddr] = NegotiatedMtu(1)
    /\ self._mtu = NegotiatedMtu(1)
    /\ cache.services[SelfAddr] # {}

\* C13: from the first step of a clear_cache call to its end (True, False,
\* an error of the RPC, a link drop during it, a cancellation), with and
\* without the CACHE_CLEARING feature flag, the shared cache holds neither
\* topology nor MTU for the session's peer, and it holds for the other peer
\* what it held before.
C13_ClearCacheEmptiesPeerEntries ==
    (last.op = "clear_cache" \/ \E t \in Tasks : tasks[t].op = "clear_cache") =>
        /\ cache.services[SelfAddr] = {}
        /\ cache.mtu[SelfAddr] = None
        /\ cache.services[OtherAddr] = OtherServices
        /\ cache.mtu[OtherAddr] = OtherMtu

\* clear_cache of a proxy that clears its cache was interrupted by a link
\* drop.
C13_Witness ==
    /\ last.op = "clear_cache"
    /\ last.res = DisconnectedDuringOperation
    /\ "bluetooth_device_clear_cache" \in last.log
    /\ cache.services[SelfAddr] = {}
    /\ cache.services[OtherAddr] # {}

\* C14: clear_cache issues the clear-cache RPC only when the CACHE_CLEARING
\* feature flag is missing, and none when the flag is present.
C14_ClearCacheRpcWhenFlagMissing ==
    last.op = "clear_cache" =>
        ("bluetooth_device_clear_cache" \in last.log
            <=> "CACHE_CLEARING" \notin self._feature_flags)

\* C14, as the code has it: clear_cache issues the clear-cache RPC exactly
\* when the CACHE_CLEARING feature flag is present; when the flag is missing
\* it issues no RPC and returns True with only the shared cache cleared.
C14_ClearCacheRpcWhenFlagPresent ==
    /\ last.op = "clear_cache" =>
          /\ "bluetooth_device_clear_cache" \in last.log
                 <=> "CACHE_CLEARING" \in self._feature_flags
          /\ "CACHE_CLEARING" \notin self._feature_flags =>
                 last.res = Ret("True") /\ last.log = {}
    /\ \A t \in Tasks :
          tasks[t].op = "clear_cache" =>
              /\ "CACHE_CLEARING" \in self._feature_flags
              /\ tasks[t].pc = "rpc"
              /\ tasks[t].log = {"bluetooth_device_clear_cache"}

\* clear_cache returned True with no RPC on a proxy without the flag, with
\* the cache cleared.
C14_Witness ==
    /\ last.op = "clear_cache"
    /\ "CACHE_CLEARING" \notin self._feature_flags
    /\ last.res = Ret("True")
    /\ last.log = {}
    /\ cache.mtu[SelfAddr] = None

\* C15: the MTU the session has learned changes in no step but the one in
\* which a connect call reads the cache again: no connection-state message,
\* whatever MTU it carries, no clear_cache, discovery, disconnect or link
\* drop alters it.
C15_MtuFixedUntilNextConnect ==
    [][self._mtu # None /\ self'._mtu # self._mtu =>
           /\ env'.connects = env.connects + 1
           /\ \E t \in Tasks : tasks'[t].pc = "connect_rpc"
           /\ self'._mtu = cache.mtu[SelfAddr]]_vars

\* In its second lifecycle the session has read the MTU of the first link
\* from the cache, a connected=True message has arrived on the second link
\* and clear_cache has emptied the cache: the session's MTU is still that of
\* the first link.
C15_Witness ==
    /\ env.connects = 2
    /\ self._is_connected
    /\ self._mtu = NegotiatedMtu(1)
    /\ cache.mtu[SelfAddr] = None
    /\ last.op = "clear_cache"

\* C16: in the topology a call has just built from an enumerate-services
\* answer, every characteristic's max_write_without_response is the MTU
\* negotiated for this connection minus GATT_HEADER_SIZE, or DEFAULT_MTU
\* minus GATT_HEADER_SIZE when the session has learned no MTU.
C16_WriteSizeFromNegotiatedMtu ==
    "set_gatt_services_cache" \in last.log =>
        \A c \in self.services.chars :
            c.max_write_without_response =
                (IF self._mtu # None THEN NegotiatedMtu(env.connects) ELSE DEFAULT_MTU)
                    - GATT_HEADER_SIZE

\* A cached topology exists for the peer, and the proxy has REMOTE_CACHING
\* or the caller passed dangerous_use_bleak_cache.
CacheHit(dangerous_use_bleak_cache) ==
    /\ cache.services[SelfAddr] # {}
    /\ ("REMOTE_CACHING" \in self._feature_flags \/ dangerous_use_bleak_cache)

\* C17: discovery, in get_services and in connect, returns the cached
\* topology without the enumerate-services RPC exactly when a cached
\* topology exists and the proxy has REMOTE_CACHING or the caller opted into
\* the cache; otherwise it issues the RPC.  The step in which discovery
\* starts either ends the call with no RPC in its log, on a hit, or leaves it
\* awaiting the RPC, on a miss.
C17_DiscoveryCacheFirst ==
    [][/\ \A t \in Tasks :
            (\/ (tasks[t].pc = "idle" /\ tasks'[t].op = "get_services")
             \/ /\ tasks[t].pc \in {"connect_rpc", "connect_future"}
                /\ tasks'[t].pc = "services_rpc") =>
                /\ ~CacheHit(tasks'[t].use_cache)
                /\ tasks'[t].pc = "services_rpc"
                /\ "bluetooth_gatt_get_services" \in tasks'[t].log
       /\ (/\ \/ last'.op = "get_services"
               \/ (last'.op = "connect" /\ last'.res = Ret("True"))
           /\ "bluetooth_gatt_get_services" \notin last'.log) =>
                /\ CacheHit(last'.use_cache)
                /\ last'.res.cls = "return"
                /\ self'.services = Collection(cache.services[SelfAddr])
                /\ cache' = cache]_vars

\* get_services of a caller that opted into the cache returned the cached
\* topology on a proxy without REMOTE_CACHING.
C17_Witness ==
    /\ last.op = "get_services"
    /\ last.use_cache
    /\ "REMOTE_CACHING" \notin self._feature_flags
    /\ last.log = {}
    /\ last.res = Ret("services")
    /\ self.services.chars # {}

\* C18: when discovery returns (get_services returns, connect returns True)
\* the session's topology is non-empty, holds every characteristic of the
\* peer and equals the cache's entry for the peer; and at every moment, also
\* after a discovery that a link drop, an error or a cancellation ended, the
\* session's topology is empty or holds every characteristic.
C18_TopologyCompleteOnReturn ==
    /\ last.op \in {"get_services", "connect"} /\ last.res.cls = "return" =>
          /\ ~self.services.none
          /\ self.services.chars # {}
          /\ self.services.chars = cache.services[SelfAddr]
    /\ \/ self.services.chars = {}
       \/ {c.handle : c \in self.services.chars} = Handles

\* get_services has built a topology from the proxy's answer, saved it and
\* returned it.
C18_Witness ==
    /\ last.op = "get_services"
    /\ last.res = Ret("services")
    /\ "set_gatt_services_cache" \in last.log
    /\ self.services.chars = cache.services[SelfAddr]
    /\ {c.handle : c \in self.services.chars} = Handles

ConnectRequests ==
    {"bluetooth_device_connect has_cache=True",
     "bluetooth_device_connect has_cache=False"}

\* The step leaves the proxy and API client side as it was.
ProxyUnchanged ==
    /\ env'.link = env.link
    /\ env'.connects = env.connects
    /\ env'.conn_subs = env.conn_subs
    /\ env'.disconnect_callbacks = env.disconnect_callbacks
    /\ env'.notify_subs = env.notify_subs

\* C19: connect issues the connect request only after a free slot: at once
\* when a slot is free at the call, after the wait when one becomes free.  A
\* connect call whose wait ran into CONNECT_FREE_SLOT_TIMEOUT raises
\* TimeoutError, has issued no connect request, and the step that ends it
\* leaves session, cache and proxy side as they were.
C19_ConnectWaitsForFreeSlot ==
    [][/\ \A t \in Tasks :
            /\ tasks[t].pc = "idle" /\ tasks'[t].op = "connect" =>
                  \/ /\ tasks'[t].pc = "connect_rpc"
                     /\ tasks'[t].log \subseteq ConnectRequests
                     /\ env'.connects = env.connects + 1
                  \/ /\ tasks'[t].pc = "connect_slot"
                     /\ tasks'[t].log = {"wait_for_ble_connections_free"}
                     /\ self' = self /\ cache' = cache /\ ProxyUnchanged
            /\ tasks[t].pc = "connect_slot" /\ tasks'[t].pc # "connect_slot" =>
                  \/ /\ tasks'[t].pc = "connect_rpc"
                     /\ "CONNECT_FREE_SLOT_TIMEOUT expired" \notin tasks'[t].log
                     /\ env'.connects = env.connects + 1
                  \/ /\ last'.op = "connect"
                     /\ last'.res \in {TimeoutError, CancelledError}
                     /\ last'.log \cap ConnectRequests = {}
                     /\ self' = self /\ cache' = cache /\ ProxyUnchanged
       /\ "CONNECT_FREE_SLOT_TIMEOUT expired" \in last'.log =>
            /\ last'.res = TimeoutError
            /\ last'.log \cap ConnectRequests = {}
            /\ self' = self /\ cache' = cache /\ ProxyUnchanged
       /\ env'.connects # env.connects =>
            \E t \in Tasks : /\ tasks[t].pc \in {"idle", "connect_slot"}
                             /\ tasks'[t].pc = "connect_rpc"]_vars

\* The slot wait of a second connect call timed out: the session is as the
\* first lifecycle left it.
C19_Witness ==
    /\ last.op = "connect"
    /\ "CONNECT_FREE_SLOT_TIMEOUT expired" \in last.log
    /\ last.res = TimeoutError
    /\ env.connects = 1
    /\ self._mtu = NegotiatedMtu(1)
    /\ ~self._is_connected

\* The wrapped operations in flight: the tasks suspended inside a
\* verify_connected wrapper.
InFlight == {t \in Tasks : tasks[t].pc \in WrappedRpc}

\* C20: the waiter set holds exactly one waiter for each wrapped operation
\* in flight, and is empty when none is in flight.
C20_OneWaiterPerOperation ==
    self._disconnected_futures = InFlight

\* C20, as the code has it: the waiter set holds exactly the unresolved
\* waiters, one for each wrapped operation in flight that no cleanup has
\* reached.  A cleanup (link drop or disconnect) resolves every waiter and
\* clears the set at once, while the operations it interrupts are in flight
\* until their interrupt is delivered; an operation that starts in between
\* adds its own waiter.  When no wrapped operation is in flight the set is
\* empty.
C20_WaitersOfUninterruptedOperations ==
    /\ env.interrupts \subseteq InFlight
    /\ self._disconnected_futures = InFlight \ env.interrupts
    /\ InFlight = {} => self._disconnected_futures = {}

\* After a link drop one operation awaits its interrupt, with its waiter
\* gone from the set, and an operation that started later has its waiter in
\* the set.
C20_Witness ==
    /\ env.interrupts # {}
    /\ self._disconnected_futures # {}
    /\ env.connected_drops = 1

\* A connected_future that holds a result, an exception or a cancellation.
Resolved(future) == future.cls \notin {"none", "pending"}

\* C21: a connected_future is resolved at most once.  No step changes a
\* resolved one (it can only be dropped as garbage), so a connection-state
\* message that arrives after it never sets it again, which is also the
\* only way the callback could raise; and _async_esp_disconnected is
\* registered only in the step that gives a pending future its result True,
\* once.
C21_ConnectFutureResolvedOnce ==
    [][/\ \A c \in ConnectIds :
            Resolved(env.connected_future[c]) =>
                env'.connected_future[c] \in {env.connected_future[c], NoRes}
       /\ env'.disconnect_callbacks > env.disconnect_callbacks =>
            /\ env'.disconnect_callbacks = env.disconnect_callbacks + 1
            /\ Cardinality({c \in ConnectIds :
                               /\ env.connected_future[c] = Pending
                               /\ env'.connected_future[c] = Ret("True")}) = 1]_vars

\* While connect still awaits the connect RPC, connected=True has given the
\* future its result and a later connected=False message has run link-drop
\* handling without touching the future.
C21_Witness ==
    /\ \E t \in Tasks : tasks[t].pc = "connect_rpc"
    /\ env.connected_future[env.connects] = Ret("True")
    /\ env.connects \in env.conn_subs
    /\ ~self._is_connected
    /\ env.disconnect_callbacks = 1

CccdWrites ==
    {"write_descriptor CCCD_NOTIFY_BYTES", "write_descriptor CCCD_INDICATE_BYTES"}

NoCccdError ==
    Exc("BleakError", "does not have a characteristic client config descriptor")

\* The subscribe RPC of task t's start_notify returns in this step: the
\* registry gets the entry of the call.
SubscribeReturned(t) ==
    /\ tasks[t].pc = "notify_rpc"
    /\ <<tasks[t].handle, t>> \in self'._notify_cancels \ self._notify_cancels

C23_NotConnectedRejected ==
    [][~self._is_connected =>
           /\ \A t \in Tasks :
                tasks[t].pc = "idle" => tasks'[t].pc \notin WrappedRpc
           /\ ((\A t \in Tasks : tasks'[t].pc = tasks[t].pc)
                  /\ last'.op \notin {"none", "connect", "disconnect"}) =>
                /\ last'.res.cls = "BleakError"
                /\ last'.log = {}]_vars

\* C24: a start_notify call that fails leaves no entry of its own in the
\* registry.  A call that fails in the step it starts (handle subscribed
\* already, neither notify nor indicate) leaves the registry as it was; a
\* call that fails later (subscribe RPC, missing CCCD, CCCD write, link
\* drop, cancellation) ends with no entry made by it.
C24_FailedStartNotifyLeavesNoEntry ==
    [][/\ ((\A t \in Tasks : tasks'[t].pc = tasks[t].pc)
              /\ last'.op = "start_notify") =>
            self'._notify_cancels = self._notify_cancels
       /\ \A t \in Tasks :
            (/\ tasks[t].op = "start_notify"
             /\ tasks'[t].pc = "idle"
             /\ last'.res.cls # "return") =>
                <<tasks[t].handle, t>> \notin self'._notify_cancels]_vars

\* C25: _async_esp_disconnected is in the shared disconnect-callback list at
\* most once, and not at all while the session is disconnected with no
\* connect call under way.
C25_HandlerRegisteredAtMostOnce ==
    /\ env.disconnect_callbacks <= 1
    /\ ~self._is_connected /\ ~ConnectInProgress =>
          env.disconnect_callbacks = 0

\* C26: whenever the session is disconnected and no connect call is under
\* way, it holds no connection-state unsubscribe handle.
C26_NoSubscriptionWhenDisconnected ==
    ~self._is_connected /\ ~ConnectInProgress =>
        self._cancel_connection_state = None

====
